---- MODULE Spec2Model ----
(***************************************************************************)
(* Model of the Redis cache provider of ddoodev/redis-cache-prodiver.      *)
(*                                                                         *)
(* Strings that the code takes apart (keyspace, storage, key, flat Redis   *)
(* keys, KEYS patterns) are sequences of one-character strings, so that    *)
(* template concatenation, String.split and Redis glob matching are        *)
(* computed, not assumed.  Record values are opaque to the provider and    *)
(* are plain strings; Null stands for Redis' nil reply / JS null and       *)
(* Undefined for JS undefined.                                             *)
(***************************************************************************)
EXTENDS Integers, Sequences, FiniteSets, TLC

VARIABLES
  store,            \* the Redis keyspace: key -> string value (or hash)
  provider,         \* which of the repository's three providers runs
  performanceMode,  \* RedisCacheProvider.performanceMode
  prefix,           \* RedisCacheProvider.prefix (hash provider)
  call,             \* the provider call in flight (or Idle), with its locals
  logical,          \* history: (keyspace, storage, key) -> value last written
  dom,              \* the names and values the callers of this run use
  connection        \* whether redisClient holds an open connection

vars == <<store, provider, performanceMode, prefix, call, logical, dom, connection>>

---------------------------------------------------------------------------
(* Bounds *)

\* longest predicate list handed to counts()
MaxPreds == 2

\* most writes another client performs while one provider call is in flight
MaxWrites == 1

---------------------------------------------------------------------------
(* Values *)

\* redisClient before and after a successful connect()
Closed == "closed"
Open == "open"

Null == "null"
Undefined == "undefined"

\* enum RedisCacheProviderPerformanceMode { Fast, Saving }
Fast == 0
Saving == 1

\* the key slot of a KEYS reply that split(':')[2] does not find
UndefKey == <<"undefined">>

\* JS truthiness of a fetched value (string | null | undefined)
Truthy(v) == v # Null /\ v # Undefined /\ v # ""

\* `x || undefined`
OrUndefined(v) == IF Truthy(v) THEN v ELSE Undefined

\* Number(v) of the record values used here
ToInt(v) ==
  CASE v = "" -> 0
    [] v = "1" -> 1
    [] v = "2" -> 2
    [] v = "3" -> 3
    [] OTHER -> 0

\* caller-supplied predicates, by name
Preds == {"gt1", "isEven", "isOdd"}

Holds(p, v) ==
  CASE p = "gt1" -> ToInt(v) > 1
    [] p = "isEven" -> ToInt(v) % 2 = 0
    [] p = "isOdd" -> ToInt(v) % 2 = 1
    [] p = "always" -> TRUE
    [] OTHER -> FALSE

---------------------------------------------------------------------------
(* Key codec *)

Sep == ":"
Star == <<"*">>

\* a template slot: `${x ?? '*'}`
OrStar(x) == IF x = UndefKey THEN Star ELSE x

getRedisKey(keyspace, storage, key) ==
  keyspace \o <<Sep>> \o OrStar(storage) \o <<Sep>> \o OrStar(key)

\* String.prototype.split(sep): the segments between separators
RECURSIVE Split(_, _)
Split(s, sep) ==
  IF \A i \in 1..Len(s) : s[i] # sep
  THEN <<s>>
  ELSE LET i == CHOOSE j \in 1..Len(s) :
                  s[j] = sep /\ \A m \in 1..(j - 1) : s[m] # sep
       IN <<SubSeq(s, 1, i - 1)>> \o Split(SubSeq(s, i + 1, Len(s)), sep)

\* key.split(':')[2]
DecodeKey(flat) ==
  LET parts == Split(flat, Sep)
  IN IF Len(parts) >= 3 THEN parts[3] ELSE UndefKey

---------------------------------------------------------------------------
(* The Redis server, as the client calls used by the provider see it *)

\* Redis glob matching (KEYS pattern): * ? and \-escape
RECURSIVE GlobMatch(_, _)
GlobMatch(p, s) ==
  IF p = <<>> THEN s = <<>>
  ELSE IF Head(p) = "*"
    THEN \E n \in 0..Len(s) : GlobMatch(Tail(p), SubSeq(s, n + 1, Len(s)))
  ELSE IF s = <<>> THEN FALSE
  ELSE IF Head(p) = "?" THEN GlobMatch(Tail(p), Tail(s))
  ELSE IF Head(p) = "\\" /\ Len(p) >= 2
    THEN p[2] = Head(s) /\ GlobMatch(Tail(Tail(p)), Tail(s))
  ELSE Head(p) = Head(s) /\ GlobMatch(Tail(p), Tail(s))

\* GET key
RedisGet(s, k) == IF k \in DOMAIN s THEN s[k] ELSE Null

\* SET key value
RedisSet(s, k, v) == [x \in (DOMAIN s) \cup {k} |-> IF x = k THEN v ELSE s[x]]

\* EXISTS key
RedisExists(s, k) == IF k \in DOMAIN s THEN 1 ELSE 0

\* (faulty variant: only the first key is removed)
RedisDelFirst(s, ks) ==
  LET gone == {ks[i] : i \in 1..Len(ks) \cap {1}} \cap DOMAIN s
  IN [s |-> [x \in (DOMAIN s) \ gone |-> s[x]], n |-> Cardinality(gone)]

\* DEL key [key ...]: the store afterwards, and the number of keys removed
RedisDel(s, ks) ==
  LET gone == {ks[i] : i \in 1..Len(ks)} \cap DOMAIN s
  IN [s |-> [x \in (DOMAIN s) \ gone |-> s[x]], n |-> Cardinality(gone)]

\* MGET key [key ...]
RedisMGet(s, ks) == [i \in 1..Len(ks) |-> RedisGet(s, ks[i])]

\* KEYS pattern: the matching keys, in an order the server chooses
RedisKeysSet(s, pattern) == {k \in DOMAIN s : GlobMatch(pattern, k)}

Orders(S) ==
  {q \in [1..Cardinality(S) -> S] : \A i, j \in 1..Cardinality(S) : q[i] = q[j] => i = j}

\* HGET key field
RedisHGet(s, k, f) == IF k \in DOMAIN s /\ f \in DOMAIN s[k] THEN s[k][f] ELSE Null

\* HSET key field value
RedisHSet(s, k, f, v) ==
  LET old == IF k \in DOMAIN s THEN s[k] ELSE <<>>
      new == [x \in (DOMAIN old) \cup {f} |-> IF x = f THEN v ELSE old[x]]
  IN [x \in (DOMAIN s) \cup {k} |-> IF x = k THEN new ELSE s[x]]

\* HDEL key field [field ...]: a hash left without fields is removed
RedisHDel(s, k, fs) ==
  LET old == IF k \in DOMAIN s THEN s[k] ELSE <<>>
      gone == {fs[i] : i \in 1..Len(fs)} \cap DOMAIN old
      new == [x \in (DOMAIN old) \ gone |-> old[x]]
  IN [s |-> IF DOMAIN new = {}
            THEN [x \in (DOMAIN s) \ {k} |-> s[x]]
            ELSE [x \in DOMAIN s |-> IF x = k THEN new ELSE s[x]],
      n |-> Cardinality(gone)]

\* HLEN key
RedisHLen(s, k) == IF k \in DOMAIN s THEN Cardinality(DOMAIN s[k]) ELSE 0

\* HEXISTS key field
RedisHExists(s, k, f) == IF k \in DOMAIN s /\ f \in DOMAIN s[k] THEN 1 ELSE 0

\* the fields of the hash at key (HKEYS, HVALS and HGETALL list them in an
\* order the server chooses)
RedisHFields(s, k) == IF k \in DOMAIN s THEN DOMAIN s[k] ELSE {}

---------------------------------------------------------------------------
(* A provider call: its arguments, its locals and the store calls it made *)

\* the providers: src/src/RedisCacheProvider.ts (flat keys, performance
\* mode), and the two of src/unnamed/part_000 (hashes; flat keys, no mode)
Perf == "perf"
Plain == "plain"
Hash == "hash"

ScanOps == {"forEach", "filter", "map", "find", "count", "counts", "sweep"}

Idle ==
  [op |-> "none", impl |-> "none", pc |-> "idle", ks |-> <<>>, st |-> <<>>,
   preds |-> <<>>, key |-> <<>>, val |-> Null, keys |-> <<>>, values |-> <<>>,
   i |-> 1, p |-> 1, cur |-> Null, acc |-> <<>>, inner |-> <<>>, count |-> 0,
   counts |-> <<>>, result |-> Undefined, err |-> FALSE, log |-> <<>>,
   store0 |-> <<>>, logical0 |-> <<>>, writes |-> 0, held |-> {}]

\* the locals of a call to `op` before its first store call; store0 and
\* logical0 are the store and the history at the time of the call
NewCall(impl, op, ks, st, preds, key, val, s, l) ==
  [Idle EXCEPT !.op = op, !.impl = impl, !.pc = "keys", !.ks = ks, !.st = st,
               !.preds = preds, !.key = key, !.val = val, !.store0 = s,
               !.logical0 = l, !.held = {<<t, l[t]>> : t \in DOMAIN l}]

\* one store call or predicate invocation made by the call: the command (or
\* PRED), its keys, and the value sent, replied (GET) or handed to the predicate
Logged(c, e, k, v) == [c EXCEPT !.log = Append(@, [e |-> e, k |-> k, v |-> v])]

Done(c, result) == [c EXCEPT !.pc = "done", !.result = result]

\* the promise of the call rejects
Failed(c) == [c EXCEPT !.pc = "done", !.err = TRUE]

\* fn(value, key, provider) of map(): the projection named p
Project(p, k, v) == <<k, v, Holds(p, v)>>

\* what each scan returns when `!keys.length`
Identity(c) ==
  CASE c.op = "filter" -> <<>>
    [] c.op = "map" -> <<>>
    [] c.op = "count" -> 0
    [] c.op = "counts" -> <<>>
    [] OTHER -> Undefined

\* (faulty variant: the Fast branch is taken whatever the mode)
StartPassAlwaysFast(c, mode) == [c EXCEPT !.pc = "mget", !.i = 1, !.count = 0]

\* the start of one pass over the keys: the branch on this.performanceMode
\* (the provider without modes has the per-key path only)
StartPass(c, mode) ==
  IF c.impl = Perf /\ mode = Fast
  THEN [c EXCEPT !.pc = "mget", !.i = 1, !.count = 0]
  ELSE [c EXCEPT !.pc = "get", !.i = 1, !.count = 0]

\* (faulty variant: counts fetches once, the later predicates reuse `values`)
FinishPassReuse(c, mode) ==
  CASE c.op = "forEach" -> Done(c, Undefined)
    [] c.op = "filter" -> Done(c, c.acc)
    [] c.op = "map" -> Done(c, c.acc)
    [] c.op = "find" -> Done(c, Undefined)
    [] c.op = "count" -> Done(c, c.count)
    [] c.op = "counts" ->
         LET d == [c EXCEPT !.counts = Append(@, c.count)]
         IN IF c.p < Len(c.preds)
            THEN [d EXCEPT !.p = c.p + 1, !.i = 1, !.count = 0,
                           !.pc = IF c.impl = Perf /\ mode = Fast THEN "loop" ELSE "get"]
            ELSE Done(d, d.counts)
    [] c.op = "sweep" ->
         IF Len(c.acc) > 0 THEN [c EXCEPT !.pc = "del"] ELSE Done(c, Undefined)
    [] OTHER -> Failed(c)

\* the code after the loop over the keys
FinishPass(c, mode) ==
  CASE c.op = "forEach" -> Done(c, Undefined)
    [] c.op = "filter" -> Done(c, c.acc)
    [] c.op = "map" -> Done(c, c.acc)
    [] c.op = "find" -> Done(c, Undefined)
    [] c.op = "count" -> Done(c, c.count)
    [] c.op = "counts" ->
         LET d == [c EXCEPT !.counts = Append(@, c.count)]
         IN IF c.p < Len(c.preds)
            THEN StartPass([d EXCEPT !.p = c.p + 1], mode)
            ELSE Done(d, d.counts)
    [] c.op = "sweep" ->
         \* `if (keysToDelete.length)`: the list declared at line 100
         IF Len(c.acc) > 0 THEN [c EXCEPT !.pc = "del"] ELSE Done(c, Undefined)
    [] OTHER -> Failed(c)

\* (faulty variant: sweep deletes a matching key at once in every provider)
FoldInline(c, v, fast) ==
  LET k == c.keys[c.i]
      p == c.preds[c.p]
      d == Logged(c, "PRED", <<k>>, v)
  IN CASE c.op = "filter" ->
            IF Holds(p, v) THEN [d EXCEPT !.acc = Append(@, <<k, v>>)] ELSE d
       [] c.op = "map" -> [d EXCEPT !.acc = Append(@, Project(p, k, v))]
       [] c.op = "find" -> IF Holds(p, v) THEN Done(d, v) ELSE d
       [] c.op \in {"count", "counts"} ->
            IF Holds(p, v) THEN [d EXCEPT !.count = @ + 1] ELSE d
       [] c.op = "sweep" -> IF Holds(p, v) THEN [d EXCEPT !.pc = "delOne"] ELSE d
       [] OTHER -> d

\* the loop body once the value is known to be truthy: the predicate is
\* invoked on (v, keys[i]) and its result used; fast tells the branch
Fold(c, v, fast) ==
  LET k == c.keys[c.i]
      p == c.preds[c.p]
      d == Logged(c, "PRED", <<k>>, v)
  IN CASE c.op = "forEach" -> d
       [] c.op = "filter" ->
            IF Holds(p, v) THEN [d EXCEPT !.acc = Append(@, <<k, v>>)] ELSE d
       [] c.op = "map" -> [d EXCEPT !.acc = Append(@, Project(p, k, v))]
       [] c.op = "find" -> IF Holds(p, v) THEN Done(d, v) ELSE d
       [] c.op \in {"count", "counts"} ->
            IF Holds(p, v) THEN [d EXCEPT !.count = @ + 1] ELSE d
       [] c.op = "sweep" ->
            IF ~Holds(p, v) THEN d
            \* part_000 line 194: the key is deleted at once
            ELSE IF c.impl = Plain THEN [d EXCEPT !.pc = "delOne"]
            \* line 107: the Fast branch declares its own keysToDelete
            ELSE IF fast THEN [d EXCEPT !.inner = Append(@, k)]
            ELSE [d EXCEPT !.acc = Append(@, k)]
       [] OTHER -> d

\* the next iteration, or the code after the loop
NextKey(c, mode, pc) ==
  IF c.pc = "done" THEN c
  ELSE IF c.i < Len(c.keys) THEN [c EXCEPT !.i = @ + 1, !.pc = pc]
  ELSE FinishPass(c, mode)

---------------------------------------------------------------------------
(* The steps of a call of the flat-key providers, one per await *)

FlatKeys(c, ks) == [i \in 1..Len(ks) |-> getRedisKey(c.ks, c.st, ks[i])]

\* the code that follows `const keys = await this.keys(keyspace, storage)`,
\* flats being the KEYS reply
\* (faulty variant: without the `if (!keys.length) return`)
EnumeratedNoReturn(c, flats, mode) ==
  LET ks == [i \in 1..Len(flats) |-> DecodeKey(flats[i])]
      d == [c EXCEPT !.keys = ks]
  IN CASE c.op = "size" -> Done(d, Len(ks))
       [] c.op = "keys" -> Done(d, ks)
       [] c.op \in {"values", "entries"} -> [d EXCEPT !.pc = "mget"]
       [] c.op = "clear" -> [d EXCEPT !.pc = "del", !.acc = ks]
       [] OTHER -> StartPass(d, mode)

\* the code that follows `const keys = await this.keys(keyspace, storage)`
Enumerated(c, flats, mode) ==
  LET ks == [i \in 1..Len(flats) |-> DecodeKey(flats[i])]
      d == [c EXCEPT !.keys = ks]
  IN CASE c.op = "size" -> Done(d, Len(ks))
       [] c.op = "keys" -> Done(d, ks)
       [] c.op \in {"values", "entries"} -> [d EXCEPT !.pc = "mget"]
       [] c.op = "clear" ->
            IF Len(ks) = 0 THEN Done(d, FALSE)
            ELSE IF c.impl = Plain THEN [d EXCEPT !.pc = "delOne", !.i = 1]
            ELSE [d EXCEPT !.pc = "del", !.acc = ks]
       [] c.op = "counts" ->
            IF Len(ks) = 0 THEN Done(d, Identity(d))
            ELSE IF Len(c.preds) = 0 THEN Done(d, <<>>)
            ELSE StartPass(d, mode)
       [] OTHER ->
            IF Len(ks) = 0 THEN Done(d, Identity(d)) ELSE StartPass(d, mode)

\* `await this.keys(keyspace, storage)`
keysStep(c, flats, mode) ==
  Enumerated(Logged(c, "KEYS", <<getRedisKey(c.ks, c.st, Star)>>, Null), flats, mode)

\* values() and entries(): `this.redisClient.mGet(keys)`
mGetLogical(c, s) ==
  LET vals == RedisMGet(s, c.keys)
      d == Logged([c EXCEPT !.values = vals], "MGET", c.keys, Null)
  IN IF Len(c.keys) = 0 THEN Failed(d)   \* MGET without a key: an error reply
     ELSE IF c.op = "values" THEN Done(d, vals)
     ELSE Done(d, [i \in 1..Len(c.keys) |-> <<c.keys[i], vals[i]>>])

\* the scans' `this.redisClient.mGet(keys.map(key => this.getRedisKey(...)))`
mGetScan(c, s) ==
  LET flat == FlatKeys(c, c.keys)
  IN Logged([c EXCEPT !.values = RedisMGet(s, flat), !.pc = "loop", !.i = 1],
            "MGET", flat, Null)

mGetStep(c, s) ==
  IF c.op \in {"values", "entries"} THEN mGetLogical(c, s) ELSE mGetScan(c, s)

\* one iteration of the Fast loop: `if (!values[i]) continue`, else the predicate
\* (faulty variant: without the `if (!values[i]) continue`)
loopStepNoContinue(c, mode) == NextKey(Fold(c, c.values[c.i], TRUE), mode, "loop")

\* one iteration of the Fast loop
loopStep(c, mode) ==
  LET v == c.values[c.i]
  IN IF Truthy(v) THEN NextKey(Fold(c, v, TRUE), mode, "loop")
     ELSE NextKey(c, mode, "loop")

\* this.get(keyspace, storage, key)
getValue(s, ks, st, k) == OrUndefined(RedisGet(s, getRedisKey(ks, st, k)))

\* the per-key loop's `const value = await this.get(keyspace, storage, key)`
\* (faulty variant: the predicate is awaited whatever the value is)
getStepNoCheck(c, s, mode) ==
  LET k == c.keys[c.i]
      d == Logged(c, "GET", <<getRedisKey(c.ks, c.st, k)>>,
                  RedisGet(s, getRedisKey(c.ks, c.st, k)))
  IN [d EXCEPT !.cur = RedisGet(s, getRedisKey(c.ks, c.st, k)), !.pc = "pred"]

\* the per-key loop's GET and its `if (value)` / `value &&`
getStep(c, s, mode) ==
  LET k == c.keys[c.i]
      v == getValue(s, c.ks, c.st, k)
      d == Logged(c, "GET", <<getRedisKey(c.ks, c.st, k)>>,
                  RedisGet(s, getRedisKey(c.ks, c.st, k)))
  IN IF Truthy(v) THEN [d EXCEPT !.cur = v, !.pc = "pred"]
     ELSE NextKey(d, mode, "get")

\* the per-key loop's `await predicate(value, key, this)`
predStep(c, mode) ==
  LET d == Fold(c, c.cur, FALSE)
  IN IF d.pc = "delOne" THEN d ELSE NextKey(d, mode, "get")

\* this.delete(keyspace, storage, keys) of clear() and sweep()
\* (faulty variant: only the first key of the list is deleted)
delStepFirstKey(c, s) ==
  LET flat == FlatKeys(c, <<c.acc[1]>>)
      r == RedisDel(s, flat)
      d == Logged(c, "DEL", flat, Null)
  IN [c |-> IF c.op = "clear" THEN Done(d, r.n > 0) ELSE Done(d, Undefined),
      s |-> r.s, gone |-> {c.acc[1]}]

\* the batched delete: one DEL for the whole list
delStep(c, s) ==
  LET flat == FlatKeys(c, c.acc)
      r == RedisDel(s, flat)
      d == Logged(c, "DEL", flat, Null)
  IN [c |-> IF c.op = "clear" THEN Done(d, r.n > 0) ELSE Done(d, Undefined),
      s |-> r.s, gone |-> {c.acc[i] : i \in 1..Len(c.acc)}]

\* the provider without modes: `await this.delete(keyspace, storage, key)` in
\* the loops of clear() and sweep()
delOneStep(c, s, mode) ==
  LET k == c.keys[c.i]
      flat == FlatKeys(c, <<k>>)
      r == RedisDel(s, flat)
      d == Logged(c, "DEL", flat, Null)
  IN [c |-> IF c.op = "clear"
            THEN (IF c.i < Len(c.keys) THEN [d EXCEPT !.i = @ + 1] ELSE Done(d, TRUE))
            ELSE NextKey([d EXCEPT !.pc = "get"], mode, "get"),
      s |-> r.s, gone |-> {k}]

---------------------------------------------------------------------------
(* The history of writes, by namespace triple *)

LSet(l, t, v) == [x \in (DOMAIN l) \cup {t} |-> IF x = t THEN v ELSE l[x]]

LDel(l, ts) == [x \in (DOMAIN l) \ ts |-> l[x]]

Triples(ks, st, keySet) == {<<ks, st, k>> : k \in keySet}

\* the triples of one (keyspace, storage) partition that hold a record
PartitionOf(l, ks, st) == {t \in DOMAIN l : t[1] = ks /\ t[2] = st}

---------------------------------------------------------------------------
(* The callers' names and values *)

\* identifiers as the host application uses them
PlainDom ==
  [ks |-> {<<"g">>}, st |-> {<<"s">>, <<"t">>}, k |-> {<<"x">>, <<"y">>},
   v |-> {"", "1", "2"}]

\* one partition, for runs with a second client
SmallDom ==
  [ks |-> {<<"g">>}, st |-> {<<"s">>}, k |-> {<<"x">>, <<"y">>},
   v |-> {"1", "2"}]

\* names without ':' that hold a character Redis patterns give a meaning to
GlobDom ==
  [ks |-> {<<"g">>, <<"\\">>}, st |-> {<<"s">>}, k |-> {<<"x">>, <<"y">>},
   v |-> {"1", "2"}]

\* names of which one holds the separator ':'
SepDom ==
  [ks |-> {<<"g">>}, st |-> {<<"s">>, <<"s", ":", "a">>},
   k |-> {<<"b">>, <<"a", ":", "b">>}, v |-> {"1", "2"}]

\* names without ':' of which one is the pattern character '?'
MetaDom ==
  [ks |-> {<<"g">>, <<"?">>}, st |-> {<<"s">>}, k |-> {<<"x">>, <<"y">>},
   v |-> {"1", "2"}]

\* the key argument of delete(): one key, or a list of keys
KeyLists == {<<k>> : k \in dom.k} \cup {<<k1, k2>> : k1 \in dom.k, k2 \in dom.k}

PredLists == UNION {[1..n -> Preds] : n \in 0..MaxPreds}

\* constructor: `if (providerOptions.performance) this.performanceMode = ...`
Construct(option) ==
  IF Len(option) = 1 /\ option[1] # 0 THEN option[1] ELSE Fast

---------------------------------------------------------------------------
(* Calls of the flat-key providers *)

IsIdle == call.pc = "idle"
IsFlat == provider \in {Perf, Plain}

get(keyspace, storage, key) ==
  /\ IsIdle /\ IsFlat
  /\ LET c == NewCall(provider, "get", keyspace, storage, <<>>, <<key>>, Null, store, logical)
         d == Logged(c, "GET", <<getRedisKey(keyspace, storage, key)>>, Null)
     IN call' = Done(d, getValue(store, keyspace, storage, key))
  /\ UNCHANGED <<store, provider, performanceMode, prefix, logical, dom, connection>>

set(keyspace, storage, key, value) ==
  /\ IsIdle /\ IsFlat
  /\ LET c == NewCall(provider, "set", keyspace, storage, <<>>, <<key>>, value, store, logical)
         d == Logged(c, "SET", <<getRedisKey(keyspace, storage, key)>>, value)
     IN call' = Done(d, "this")
  /\ store' = RedisSet(store, getRedisKey(keyspace, storage, key), value)
  /\ logical' = LSet(logical, <<keyspace, storage, key>>, value)
  /\ UNCHANGED <<provider, performanceMode, prefix, dom, connection>>

delete(keyspace, storage, key) ==
  /\ IsIdle /\ IsFlat
  /\ LET c == NewCall(provider, "delete", keyspace, storage, <<>>, key, Null, store, logical)
         flat == FlatKeys(c, key)
         r == RedisDel(store, flat)
     IN /\ call' = Done(Logged(c, "DEL", flat, Null), r.n > 0)
        /\ store' = r.s
  /\ logical' = LDel(logical, Triples(keyspace, storage, {key[i] : i \in 1..Len(key)}))
  /\ UNCHANGED <<provider, performanceMode, prefix, dom, connection>>

has(keyspace, storage, key) ==
  /\ IsIdle /\ IsFlat
  /\ LET c == NewCall(provider, "has", keyspace, storage, <<>>, <<key>>, Null, store, logical)
         flat == getRedisKey(keyspace, storage, key)
     IN call' = Done(Logged(c, "EXISTS", <<flat>>, Null), RedisExists(store, flat) > 0)
  /\ UNCHANGED <<store, provider, performanceMode, prefix, logical, dom, connection>>

\* a call that starts with `await this.keys(keyspace, storage)`
Begin(op, keyspace, storage, preds) ==
  /\ IsIdle /\ IsFlat
  /\ call' = NewCall(provider, op, keyspace, storage, preds, <<>>, Null, store, logical)
  /\ UNCHANGED <<store, provider, performanceMode, prefix, logical, dom, connection>>

forEach(keyspace, storage, predicate) == Begin("forEach", keyspace, storage, <<predicate>>)
clear(keyspace, storage) == Begin("clear", keyspace, storage, <<>>)
size(keyspace, storage) == Begin("size", keyspace, storage, <<>>)
sweep(keyspace, storage, predicate) == Begin("sweep", keyspace, storage, <<predicate>>)
filter(keyspace, storage, predicate) == Begin("filter", keyspace, storage, <<predicate>>)
map(keyspace, storage, predicate) == Begin("map", keyspace, storage, <<predicate>>)
find(keyspace, storage, predicate) == Begin("find", keyspace, storage, <<predicate>>)
count(keyspace, storage, predicate) == Begin("count", keyspace, storage, <<predicate>>)
counts(keyspace, storage, predicates) == Begin("counts", keyspace, storage, predicates)
keys(keyspace, storage) == Begin("keys", keyspace, storage, <<>>)
values(keyspace, storage) == Begin("values", keyspace, storage, <<>>)
entries(keyspace, storage) == Begin("entries", keyspace, storage, <<>>)

\* the KEYS reply arrives
AwaitKeys ==
  /\ call.pc = "keys"
  /\ \E flats \in Orders(RedisKeysSet(store, getRedisKey(call.ks, call.st, Star))) :
       call' = keysStep(call, flats, performanceMode)
  /\ UNCHANGED <<store, provider, performanceMode, prefix, logical, dom, connection>>

\* the MGET reply arrives
AwaitMGet ==
  /\ call.pc = "mget"
  /\ call' = mGetStep(call, store)
  /\ UNCHANGED <<store, provider, performanceMode, prefix, logical, dom, connection>>

\* Fast: the next loop iteration runs and its predicate, if any, resolves
AwaitLoop ==
  /\ call.pc = "loop"
  /\ call' = loopStep(call, performanceMode)
  /\ UNCHANGED <<store, provider, performanceMode, prefix, logical, dom, connection>>

\* per key: the GET reply arrives
AwaitGet ==
  /\ call.pc = "get"
  /\ call' = getStep(call, store, performanceMode)
  /\ UNCHANGED <<store, provider, performanceMode, prefix, logical, dom, connection>>

\* per key: the predicate resolves
AwaitPredicate ==
  /\ call.pc = "pred"
  /\ call' = predStep(call, performanceMode)
  /\ UNCHANGED <<store, provider, performanceMode, prefix, logical, dom, connection>>

\* the reply to the batched DEL arrives
AwaitDel ==
  /\ call.pc = "del"
  /\ LET r == delStep(call, store)
     IN /\ call' = r.c
        /\ store' = r.s
        /\ logical' = LDel(logical, Triples(call.ks, call.st, r.gone))
  /\ UNCHANGED <<provider, performanceMode, prefix, dom, connection>>

\* the provider without modes: the reply to the DEL of one key arrives
AwaitDelOne ==
  /\ call.pc = "delOne"
  /\ LET r == delOneStep(call, store, performanceMode)
     IN /\ call' = r.c
        /\ store' = r.s
        /\ logical' = LDel(logical, Triples(call.ks, call.st, r.gone))
  /\ UNCHANGED <<provider, performanceMode, prefix, dom, connection>>

\* the caller takes the result
Return ==
  /\ call.pc = "done"
  /\ call' = Idle
  /\ UNCHANGED <<store, provider, performanceMode, prefix, logical, dom, connection>>

---------------------------------------------------------------------------
(* Calls of the hash provider (src/unnamed/part_000, lines 19-108) *)

IsHash == provider = Hash

getStorageKey(keyspace, storage) ==
  (IF prefix # <<>> THEN prefix \o <<Sep>> ELSE <<>>) \o keyspace \o <<Sep>> \o storage

HashCall(op, keyspace, storage, preds, key, val) ==
  NewCall(Hash, op, keyspace, storage, preds, key, val, store, logical)

hashGet(keyspace, storage, key) ==
  /\ IsIdle /\ IsHash
  /\ LET hk == getStorageKey(keyspace, storage)
         c == Logged(HashCall("get", keyspace, storage, <<>>, <<key>>, Null),
                     "HGET", <<hk, key>>, Null)
     IN call' = Done(c, OrUndefined(RedisHGet(store, hk, key)))
  /\ UNCHANGED <<store, provider, performanceMode, prefix, logical, dom>>
  /\ connection' = Open

hashSet(keyspace, storage, key, value) ==
  /\ IsIdle /\ IsHash
  /\ LET hk == getStorageKey(keyspace, storage)
         c == Logged(HashCall("set", keyspace, storage, <<>>, <<key>>, value),
                     "HSET", <<hk, key>>, value)
     IN /\ call' = Done(c, "this")
        /\ store' = RedisHSet(store, hk, key, value)
  /\ logical' = LSet(logical, <<keyspace, storage, key>>, value)
  /\ UNCHANGED <<provider, performanceMode, prefix, dom>>
  /\ connection' = Open

hashDelete(keyspace, storage, key) ==
  /\ IsIdle /\ IsHash
  /\ LET hk == getStorageKey(keyspace, storage)
         c == Logged(HashCall("delete", keyspace, storage, <<>>, key, Null),
                     "HDEL", <<hk>> \o key, Null)
         r == RedisHDel(store, hk, key)
     IN /\ call' = Done(c, r.n > 0)
        /\ store' = r.s
  /\ logical' = LDel(logical, Triples(keyspace, storage, {key[i] : i \in 1..Len(key)}))
  /\ UNCHANGED <<provider, performanceMode, prefix, dom>>
  /\ connection' = Open

hashClear(keyspace, storage) ==
  /\ IsIdle /\ IsHash
  /\ LET hk == getStorageKey(keyspace, storage)
         c == Logged(HashCall("clear", keyspace, storage, <<>>, <<>>, Null),
                     "DEL", <<hk>>, Null)
         r == RedisDel(store, <<hk>>)
     IN /\ call' = Done(c, r.n > 0)
        /\ store' = r.s
  /\ logical' = LDel(logical, PartitionOf(logical, keyspace, storage))
  /\ UNCHANGED <<provider, performanceMode, prefix, dom>>
  /\ connection' = Open

hashSize(keyspace, storage) ==
  /\ IsIdle /\ IsHash
  /\ LET hk == getStorageKey(keyspace, storage)
         c == Logged(HashCall("size", keyspace, storage, <<>>, <<>>, Null),
                     "HLEN", <<hk>>, Null)
     IN call' = Done(c, RedisHLen(store, hk))
  /\ UNCHANGED <<store, provider, performanceMode, prefix, logical, dom>>
  /\ connection' = Open

hashHas(keyspace, storage, key) ==
  /\ IsIdle /\ IsHash
  /\ LET hk == getStorageKey(keyspace, storage)
         c == Logged(HashCall("has", keyspace, storage, <<>>, <<key>>, Null),
                     "HEXISTS", <<hk, key>>, Null)
     IN call' = Done(c, RedisHExists(store, hk, key) > 0)
  /\ UNCHANGED <<store, provider, performanceMode, prefix, logical, dom>>
  /\ connection' = Open

\* keys(), values() and entries(): HKEYS, HVALS, Object.entries(HGETALL)
hashList(op, cmd, keyspace, storage) ==
  /\ IsIdle /\ IsHash
  /\ LET hk == getStorageKey(keyspace, storage)
         c == Logged(HashCall(op, keyspace, storage, <<>>, <<>>, Null), cmd, <<hk>>, Null)
     IN \E fs \in Orders(RedisHFields(store, hk)) :
          call' = Done([c EXCEPT !.keys = fs],
                       CASE op = "keys" -> fs
                         [] op = "values" -> [i \in 1..Len(fs) |-> store[hk][fs[i]]]
                         [] OTHER -> [i \in 1..Len(fs) |-> <<fs[i], store[hk][fs[i]]>>])
  /\ UNCHANGED <<store, provider, performanceMode, prefix, logical, dom>>
  /\ connection' = Open

hashKeys(keyspace, storage) == hashList("keys", "HKEYS", keyspace, storage)
hashValues(keyspace, storage) == hashList("values", "HVALS", keyspace, storage)
hashEntries(keyspace, storage) == hashList("entries", "HGETALL", keyspace, storage)

\* forEach(): `await this.entries(keyspace, storage)`, then the loop
hashForEach(keyspace, storage, predicate) ==
  /\ IsIdle /\ IsHash
  /\ LET hk == getStorageKey(keyspace, storage)
         c == Logged(HashCall("forEach", keyspace, storage, <<predicate>>, <<>>, Null),
                     "HGETALL", <<hk>>, Null)
     IN \E fs \in Orders(RedisHFields(store, hk)) :
          call' = IF Len(fs) = 0 THEN Done(c, Undefined)
                  ELSE [c EXCEPT !.keys = fs, !.pc = "hpred", !.i = 1,
                                 !.values = [i \in 1..Len(fs) |-> store[hk][fs[i]]]]
  /\ UNCHANGED <<store, provider, performanceMode, prefix, logical, dom>>
  /\ connection' = Open

\* forEach(): `await predicate(value, key, this)` resolves
AwaitHashPredicate ==
  /\ call.pc = "hpred"
  /\ LET d == Logged(call, "PRED", <<call.keys[call.i]>>, call.values[call.i])
     IN call' = IF call.i < Len(call.keys) THEN [d EXCEPT !.i = @ + 1]
                ELSE Done(d, Undefined)
  /\ UNCHANGED <<store, provider, performanceMode, prefix, logical, dom, connection>>

---------------------------------------------------------------------------
(* Another client of the shared store *)

\* it sets or deletes a record while a call of this provider is in flight
Writer ==
  /\ call.pc \notin {"idle", "done"}
  /\ call.writes < MaxWrites
  /\ IsFlat
  /\ \E ks \in dom.ks, st \in dom.st, k \in dom.k :
       LET flat == getRedisKey(ks, st, k)
       IN \/ \E v \in dom.v :
               /\ store' = RedisSet(store, flat, v)
               /\ logical' = LSet(logical, <<ks, st, k>>, v)
               /\ call' = [call EXCEPT !.writes = @ + 1,
                                       !.held = @ \cup {<<<<ks, st, k>>, v>>}]
          \/ /\ flat \in DOMAIN store
             /\ store' = RedisDel(store, <<flat>>).s
             /\ logical' = LDel(logical, {<<ks, st, k>>})
             /\ call' = [call EXCEPT !.writes = @ + 1]
  /\ UNCHANGED <<provider, performanceMode, prefix, dom, connection>>

---------------------------------------------------------------------------
(* Store calls and predicates that fail *)

\* the reply of a store call that failed
Error == "error"

\* the store call the call is waiting for: its command and its keys
Awaited(c) ==
  CASE c.pc = "keys" -> [e |-> "KEYS", k |-> <<getRedisKey(c.ks, c.st, Star)>>]
    [] c.pc = "mget" ->
         [e |-> "MGET",
          k |-> IF c.op \in {"values", "entries"} THEN c.keys ELSE FlatKeys(c, c.keys)]
    [] c.pc = "get" -> [e |-> "GET", k |-> FlatKeys(c, <<c.keys[c.i]>>)]
    [] c.pc = "del" -> [e |-> "DEL", k |-> FlatKeys(c, c.acc)]
    [] c.pc = "delOne" -> [e |-> "DEL", k |-> FlatKeys(c, <<c.keys[c.i]>>)]
    [] OTHER -> [e |-> "NONE", k |-> <<>>]

\* the awaited store call rejects: no method has a try/catch, the rejection
\* leaves the method at the await
\* (faulty variant: a failed GET is taken for a missing value and the loop goes on)
RejectedSwallowed(c, mode) ==
  LET d == Logged(c, Awaited(c).e, Awaited(c).k, Error)
  IN IF c.pc = "get" THEN NextKey(d, mode, "get") ELSE Failed(d)

\* the awaited store call rejects
Rejected(c, mode) == Failed(Logged(c, Awaited(c).e, Awaited(c).k, Error))

\* the predicate invoked on (v, keys[i]) throws or rejects
Threw(c, v) == Failed(Logged(c, "PRED", <<c.keys[c.i]>>, v))

StoreFails ==
  /\ call.pc \in {"keys", "mget", "get", "del", "delOne"}
  /\ call' = Rejected(call, performanceMode)
  /\ UNCHANGED <<store, provider, performanceMode, prefix, logical, dom, connection>>

PredicateThrows ==
  /\ \/ call.pc = "pred" /\ call' = Threw(call, call.cur)
     \/ /\ call.pc = "loop" /\ Truthy(call.values[call.i])
        /\ call' = Threw(call, call.values[call.i])
  /\ UNCHANGED <<store, provider, performanceMode, prefix, logical, dom, connection>>

---------------------------------------------------------------------------
(* The connection of redisClient *)

Methods ==
  {"get", "set", "delete", "has", "size", "clear", "keys", "values", "entries"}
    \cup ScanOps

\* init(): `await this.redisClient.connect()`. connect() resolves once the
\* connection is open, rejects when the server cannot be reached, and rejects
\* on a client that is connected already
init ==
  /\ IsIdle
  /\ LET c == Logged(NewCall(provider, "init", <<>>, <<>>, <<>>, <<>>, Null, store, logical),
                     "CONNECT", <<>>, Null)
     IN \/ connection = Closed /\ connection' = Open /\ call' = Done(c, Undefined)
        \/ call' = Failed(c) /\ UNCHANGED connection
  /\ UNCHANGED <<store, provider, performanceMode, prefix, logical, dom>>

\* a method of a flat-key provider called before init(): the client made by
\* createClient() rejects a command while it is closed, and the method ends
\* at its first await
ClosedCalls ==
  /\ IsIdle /\ IsFlat /\ connection = Closed
  /\ \E op \in Methods, ks \in dom.ks, st \in dom.st :
       call' = Failed(Logged(NewCall(provider, op, ks, st, <<>>, <<>>, Null, store, logical),
                             "CLOSED", <<>>, Error))
  /\ UNCHANGED <<store, provider, performanceMode, prefix, logical, dom, connection>>

\* a method of the hash provider called before init(): the client made with
\* `lazyConnect: true` connects on its first command and sends the command
\* once connected (the hash provider's calls above); here the server cannot
\* be reached and the command rejects
LazyConnectFails ==
  /\ IsIdle /\ IsHash /\ connection = Closed
  /\ \E op \in Methods \ (ScanOps \ {"forEach"}), ks \in dom.ks, st \in dom.st :
       call' = Failed(Logged(HashCall(op, ks, st, <<>>, <<>>, Null), "CLOSED", <<>>, Error))
  /\ UNCHANGED <<store, provider, performanceMode, prefix, logical, dom, connection>>

---------------------------------------------------------------------------
(* Specifications *)

\* the state after `new RedisCacheProvider(app, cacheOptions, providerOptions)`
\* of one of the providers, on an empty store
Constructed(d, impls) ==
  /\ store = <<>>
  /\ logical = <<>>
  /\ call = Idle
  /\ dom = d
  /\ provider \in impls
  /\ \E option \in {<<>>, <<Fast>>, <<Saving>>} :
       performanceMode = IF provider = Perf THEN Construct(option) ELSE Fast
  /\ prefix \in IF provider = Hash THEN {<<>>, <<"p">>} ELSE {<<>>}

\* ... and its init()
InitWith(d, impls) == connection = Open /\ Constructed(d, impls)

Init == InitWith(PlainDom, {Perf, Plain, Hash})
InitGlob == InitWith(GlobDom, {Perf, Plain})
InitConc == InitWith(SmallDom, {Perf, Plain})
InitSep == InitWith(SepDom, {Perf, Plain})
InitMeta == InitWith(MetaDom, {Perf, Plain})
InitFail == InitWith(SmallDom, {Perf, Plain})
InitLife == connection = Closed /\ Constructed(SmallDom, {Perf, Plain, Hash})

FlatCalls ==
  \/ \E ks \in dom.ks, st \in dom.st, k \in dom.k : get(ks, st, k)
  \/ \E ks \in dom.ks, st \in dom.st, k \in dom.k, v \in dom.v : set(ks, st, k, v)
  \/ \E ks \in dom.ks, st \in dom.st, kl \in KeyLists : delete(ks, st, kl)
  \/ \E ks \in dom.ks, st \in dom.st, k \in dom.k : has(ks, st, k)
  \/ \E ks \in dom.ks, st \in dom.st, p \in Preds : forEach(ks, st, p)
  \/ \E ks \in dom.ks, st \in dom.st : clear(ks, st)
  \/ \E ks \in dom.ks, st \in dom.st : size(ks, st)
  \/ \E ks \in dom.ks, st \in dom.st, p \in Preds : sweep(ks, st, p)
  \/ \E ks \in dom.ks, st \in dom.st, p \in Preds : filter(ks, st, p)
  \/ \E ks \in dom.ks, st \in dom.st, p \in Preds : map(ks, st, p)
  \/ \E ks \in dom.ks, st \in dom.st, p \in Preds : find(ks, st, p)
  \/ \E ks \in dom.ks, st \in dom.st, p \in Preds : count(ks, st, p)
  \/ \E ks \in dom.ks, st \in dom.st, ps \in PredLists : counts(ks, st, ps)
  \/ \E ks \in dom.ks, st \in dom.st : keys(ks, st)
  \/ \E ks \in dom.ks, st \in dom.st : values(ks, st)
  \/ \E ks \in dom.ks, st \in dom.st : entries(ks, st)

FlatSteps ==
  \/ AwaitKeys
  \/ AwaitMGet
  \/ AwaitLoop
  \/ AwaitGet
  \/ AwaitPredicate
  \/ AwaitDel
  \/ AwaitDelOne
  \/ Return

HashCalls ==
  \/ \E ks \in dom.ks, st \in dom.st, k \in dom.k : hashGet(ks, st, k)
  \/ \E ks \in dom.ks, st \in dom.st, k \in dom.k, v \in dom.v : hashSet(ks, st, k, v)
  \/ \E ks \in dom.ks, st \in dom.st, kl \in KeyLists : hashDelete(ks, st, kl)
  \/ \E ks \in dom.ks, st \in dom.st, p \in Preds : hashForEach(ks, st, p)
  \/ \E ks \in dom.ks, st \in dom.st : hashClear(ks, st)
  \/ \E ks \in dom.ks, st \in dom.st : hashSize(ks, st)
  \/ \E ks \in dom.ks, st \in dom.st, k \in dom.k : hashHas(ks, st, k)
  \/ \E ks \in dom.ks, st \in dom.st : hashKeys(ks, st)
  \/ \E ks \in dom.ks, st \in dom.st : hashValues(ks, st)
  \/ \E ks \in dom.ks, st \in dom.st : hashEntries(ks, st)
  \/ AwaitHashPredicate

NextFlat == FlatCalls \/ FlatSteps

Next == FlatCalls \/ FlatSteps \/ HashCalls

NextConc == FlatCalls \/ FlatSteps \/ Writer

NextLife ==
  \/ init
  \/ ClosedCalls
  \/ LazyConnectFails
  \/ connection = Open /\ FlatCalls
  \/ FlatSteps
  \/ HashCalls

NextFail == FlatCalls \/ FlatSteps \/ StoreFails \/ PredicateThrows

Spec == Init /\ [][Next]_vars
SpecGlob == InitGlob /\ [][NextFlat]_vars
SpecConc == InitConc /\ [][NextConc]_vars
SpecSep == InitSep /\ [][NextFlat]_vars
SpecMeta == InitMeta /\ [][NextFlat]_vars
SpecFail == InitFail /\ [][NextFail]_vars
SpecLife == InitLife /\ [][NextLife]_vars

---------------------------------------------------------------------------
(* Running a call to its end on an unchanging store *)

\* the step the call takes at its next await
Advance(c, s, mode) ==
  CASE c.pc = "mget" -> [c |-> mGetStep(c, s), s |-> s]
    [] c.pc = "loop" -> [c |-> loopStep(c, mode), s |-> s]
    [] c.pc = "get" -> [c |-> getStep(c, s, mode), s |-> s]
    [] c.pc = "pred" -> [c |-> predStep(c, mode), s |-> s]
    [] c.pc = "del" -> [c |-> delStep(c, s).c, s |-> delStep(c, s).s]
    [] c.pc = "delOne" -> [c |-> delOneStep(c, s, mode).c, s |-> delOneStep(c, s, mode).s]
    [] OTHER -> [c |-> Failed(c), s |-> s]

RECURSIVE RunToEnd(_, _, _)
RunToEnd(c, s, mode) ==
  IF c.pc = "done" THEN c
  ELSE LET r == Advance(c, s, mode) IN RunToEnd(r.c, r.s, mode)

\* the call `op(c.ks, c.st, preds)` made on the store c started from, under
\* `mode`, with the KEYS reply c got
Replay(c, op, preds, mode) ==
  RunToEnd(keysStep(NewCall(c.impl, op, c.ks, c.st, preds, <<>>, Null,
                            c.store0, c.logical0),
                    FlatKeys(c, c.keys), mode),
           c.store0, mode)

\* the number of store calls (or predicate invocations) of one kind
CountLog(c, e) == Cardinality({n \in 1..Len(c.log) : c.log[n].e = e})

\* the record of triple (ks, st, k) in the flat-key store, Null if none
StoredAt(s, ks, st, k) == RedisGet(s, getRedisKey(ks, st, k))

\* what size(ks, st) returns on the store as it is
SizeNow(ks, st) ==
  IF provider = Hash THEN RedisHLen(store, getStorageKey(ks, st))
  ELSE Cardinality(RedisKeysSet(store, getRedisKey(ks, st, Star)))

IsDone(op) == call.pc = "done" /\ call.op = op

CallTriple == <<call.ks, call.st, call.key[1]>>

---------------------------------------------------------------------------
(* Claims *)

\* C1: round trip. A get(t) that follows set(t, v), with no write to t in
\* between, returns exactly v, for every value v including the empty string.
C1_RoundTrip ==
  (IsDone("get") /\ CallTriple \in DOMAIN logical)
    => call.result = logical[CallTriple]

\* C2: sweep postcondition. After sweep(pred) with no concurrent write, under
\* either mode, no record left in the partition has a value satisfying pred,
\* and every record whose value did not satisfy pred is still there with its
\* value. (Stated for partitions of non-empty values, as in the claim's
\* example {a:"1", b:"2", c:"3"}; the empty value is the subject of C1.)
C2_SweepPostcondition ==
  (IsDone("sweep") /\ call.writes = 0
     /\ \A t \in PartitionOf(call.logical0, call.ks, call.st) : call.logical0[t] # "")
    => \A k \in dom.k :
         LET now == StoredAt(store, call.ks, call.st, k)
             t == <<call.ks, call.st, k>>
         IN /\ now # Null => ~Holds(call.preds[1], now)
            /\ (t \in DOMAIN call.logical0 /\ ~Holds(call.preds[1], call.logical0[t]))
                 => now = call.logical0[t]

\* C3: mode equivalence. On an unchanged store, filter, map, count and find
\* return the same result under Fast and under Saving (for the same KEYS
\* reply): the result of the call equals that of the call run under either mode.
C3_ModeEquivalence ==
  (call.pc = "done" /\ call.impl = Perf /\ call.writes = 0
     /\ call.op \in {"filter", "map", "count", "find"})
    => /\ ~call.err
       /\ Replay(call, call.op, call.preds, Fast).result = call.result
       /\ Replay(call, call.op, call.preds, Saving).result = call.result

C3_Witness ==
  /\ IsDone("filter") /\ call.impl = Perf /\ performanceMode = Saving
  /\ Len(call.keys) = 2 /\ Len(call.result) = 1
  /\ \E k \in dom.k : StoredAt(store, call.ks, call.st, k) = ""

\* C4: clear. On a partition holding a record, clear returns true and size()
\* is 0 afterwards; on a partition holding none it returns false and the store
\* is unchanged.
C4_Clear ==
  (IsDone("clear") /\ call.writes = 0)
    => IF PartitionOf(call.logical0, call.ks, call.st) # {}
       THEN call.result = TRUE /\ SizeNow(call.ks, call.st) = 0
       ELSE call.result = FALSE /\ store = call.store0

C4_Witness ==
  /\ IsDone("clear") /\ call.result = TRUE
  /\ Cardinality(PartitionOf(call.logical0, call.ks, call.st)) = 2
  /\ DOMAIN logical # {}

\* C5: counts. counts(preds) returns a list as long as preds whose i-th element
\* is what count(preds[i]) returns on the same store, the empty partition
\* included.
C5_Counts ==
  (IsDone("counts") /\ call.writes = 0)
    => /\ Len(call.result) = Len(call.preds)
       /\ \A n \in 1..Len(call.preds) :
            call.result[n]
              = Replay(call, "count", <<call.preds[n]>>, performanceMode).result

\* what the scans are to return on a partition without keys
NothingFound(op) ==
  CASE op \in {"filter", "map"} -> <<>>
    [] op = "count" -> 0
    [] OTHER -> Undefined

\* C6: empty-partition short-circuit. When the enumeration of the partition
\* returns no key, forEach, filter, map, find, count and sweep make no GET, no
\* MGET, no DEL and no predicate call, and return nothing / [] / [] /
\* undefined / 0 / nothing, in both modes.
C6_EmptyShortCircuit ==
  (call.op \in {"forEach", "filter", "map", "find", "count", "sweep"}
     /\ call.impl # Hash /\ call.pc # "keys" /\ Len(call.keys) = 0)
    => /\ call.pc = "done" /\ ~call.err
       /\ \A n \in 1..Len(call.log) : call.log[n].e = "KEYS"
       /\ call.result = NothingFound(call.op)

C6_Witness ==
  /\ IsDone("count") /\ call.impl = Perf /\ performanceMode = Fast
  /\ call.keys = <<>> /\ call.result = 0
  /\ DOMAIN store # {}

\* the positions of the enumerated keys whose record exists on the store the
\* call started from and satisfies the predicate
Matching(c) ==
  {i \in 1..Len(c.keys) :
     /\ StoredAt(c.store0, c.ks, c.st, c.keys[i]) # Null
     /\ Holds(c.preds[1], StoredAt(c.store0, c.ks, c.st, c.keys[i]))}

\* C7: find short-circuits. find returns the value of the first present pair,
\* in enumeration order, whose value satisfies the predicate, undefined if
\* there is none; after the match no predicate is invoked and no value is
\* fetched; when the first enumerated key matches there is exactly one value
\* fetch (one GET or one MGET) and one predicate call.
C7_FindShortCircuits ==
  (IsDone("find") /\ call.writes = 0)
    => /\ IF Matching(call) = {} THEN call.result = Undefined
          ELSE LET first == CHOOSE i \in Matching(call) : \A j \in Matching(call) : i <= j
               IN call.result = StoredAt(call.store0, call.ks, call.st, call.keys[first])
       /\ \A n \in 1..Len(call.log) :
            (call.log[n].e = "PRED" /\ Holds(call.preds[1], call.log[n].v))
              => n = Len(call.log)
       /\ 1 \in Matching(call)
            => /\ CountLog(call, "GET") + CountLog(call, "MGET") = 1
               /\ CountLog(call, "PRED") = 1

\* C8: codec bijectivity through enumeration. For triples without ':', after
\* set(keyspace, storage, key, v) the list keys(keyspace, storage) returns
\* holds key, and distinct triples are stored under distinct flat keys.
C8_CodecBijective ==
  /\ (IsDone("keys") /\ call.writes = 0)
       => \A t \in PartitionOf(logical, call.ks, call.st) :
            \E i \in 1..Len(call.result) : call.result[i] = t[3]
  /\ Cardinality(DOMAIN store) = Cardinality(DOMAIN logical)

\* the pair (key, value) was a record of the scanned partition at some moment
\* since the call started
Held(c, k, v) == <<<<c.ks, c.st, k>>, v>> \in c.held

\* C9: weak consistency of scans under a concurrent writer. The scan does not
\* fail; a key whose record is gone when its value is fetched is skipped (its
\* predicate is not invoked, it is not reported); every (key, value) handed to
\* the predicate or reported in the result was a record of the partition at
\* some moment between the start of the scan and its end.
C9_WeakConsistency ==
  (call.op \in {"forEach", "filter", "map", "count", "find"})
    => /\ ~call.err
       /\ \A n \in 1..Len(call.log) :
            /\ call.log[n].e = "PRED"
                 => Held(call, call.log[n].k[1], call.log[n].v)
            /\ (call.log[n].e = "GET" /\ call.log[n].v = Null /\ n < Len(call.log))
                 => call.log[n + 1].e # "PRED"
       /\ call.pc = "loop"
            => \A n \in 1..Len(call.log) :
                 call.log[n].e = "PRED"
                   => \E i \in 1..Len(call.keys) :
                        call.keys[i] = call.log[n].k[1] /\ call.values[i] # Null
       /\ (call.pc = "done" /\ call.op \in {"filter", "map"})
            => \A i \in 1..Len(call.result) :
                 Held(call, call.result[i][1], call.result[i][2])
       /\ (call.pc = "done" /\ call.op = "find" /\ call.result # Undefined)
            => \E k \in dom.k : Held(call, k, call.result)

C9_Witness ==
  /\ IsDone("filter") /\ call.writes > 0
  /\ Len(call.keys) = 2 /\ Len(call.result) = 1
  /\ \E i \in 1..2 : /\ StoredAt(store, call.ks, call.st, call.keys[i]) = Null
                     /\ call.result[1][1] # call.keys[i]
                     /\ <<call.ks, call.st, call.keys[i]>> \in DOMAIN call.logical0
                     /\ Holds(call.preds[1], call.logical0[<<call.ks, call.st, call.keys[i]>>])

\* C10: values and entries are faithful projections. With no concurrent
\* write, entries returns one pair (k, v) per record of the partition with v
\* what get(k) returns, values returns the values of those records, and each
\* makes a single MGET. (Stated for the flat-key providers on a partition that
\* holds a record.)
C10_Projections ==
  (call.pc = "done" /\ call.op \in {"values", "entries"} /\ call.writes = 0
     /\ call.impl # Hash
     /\ PartitionOf(call.logical0, call.ks, call.st) # {})
    => /\ ~call.err
       /\ Len(call.result) = Cardinality(PartitionOf(call.logical0, call.ks, call.st))
       /\ CountLog(call, "MGET") = 1
       /\ \A i \in 1..Len(call.result) :
            LET v == getValue(store, call.ks, call.st, call.keys[i])
            IN IF call.op = "entries" THEN call.result[i] = <<call.keys[i], v>>
               ELSE call.result[i] = v

\* the name holds the separator
HasSep(name) == \E i \in 1..Len(name) : name[i] = Sep

\* C11: separator precondition. A call whose keyspace, storage or key holds
\* ':' is not silently mis-encoded: set either is rejected and leaves the store
\* as it was, or the triple round-trips, that is keys(keyspace, storage) lists
\* the original key and lists no key that was not set in that partition.
C11_SeparatorPrecondition ==
  /\ (IsDone("set") /\ (HasSep(call.ks) \/ HasSep(call.st) \/ HasSep(call.key[1])))
       => \/ call.err /\ store = call.store0
          \/ \A ks \in dom.ks, st \in dom.st :
               {DecodeKey(f) : f \in RedisKeysSet(store, getRedisKey(ks, st, Star))}
                 = {t[3] : t \in PartitionOf(LSet(call.logical0, CallTriple, call.val), ks, st)}
  /\ IsDone("keys")
       => \A i \in 1..Len(call.result) :
            \E v \in dom.v : Held(call, call.result[i], v)

\* the flat keys of the DEL calls of the call that were answered
DeletedKeys(c) ==
  UNION {{c.log[n].k[i] : i \in 1..Len(c.log[n].k)} :
           n \in {m \in 1..Len(c.log) : c.log[m].e = "DEL" /\ c.log[m].v # Error}}

\* C12: failure propagation. When a store call (KEYS, GET, MGET, DEL) fails
\* during a scan, sweep or clear, the operation ends there with the error: the
\* failed call is the last store call or predicate invocation it makes, and the
\* store is the one it started from less the keys of the deletes already
\* answered (nothing retried, suppressed or rolled back).
C12_FailurePropagation ==
  (call.op \in ScanOps \cup {"clear"})
    => /\ \A n \in 1..Len(call.log) :
            (call.log[n].e # "PRED" /\ call.log[n].v = Error)
              => /\ n = Len(call.log)
                 /\ call.pc = "done" /\ call.err
       /\ call.err
            => store = [x \in (DOMAIN call.store0) \ DeletedKeys(call) |-> call.store0[x]]

C12_Witness ==
  /\ IsDone("sweep") /\ call.err /\ call.impl = Plain
  /\ DeletedKeys(call) # {}
  /\ call.log[Len(call.log)].e = "GET" /\ call.log[Len(call.log)].v = Error
  /\ store # call.store0

\* the store of the hash provider after hset of every record of the history l
RECURSIVE HashStoreOf(_)
HashStoreOf(l) ==
  IF DOMAIN l = {} THEN <<>>
  ELSE LET t == CHOOSE x \in DOMAIN l : TRUE
       IN RedisHSet(HashStoreOf(LDel(l, {t})), getStorageKey(t[1], t[2]), t[3], l[t])

\* a list as an unordered collection
BagOf(q) ==
  [x \in {q[i] : i \in 1..Len(q)} |-> Cardinality({i \in 1..Len(q) : q[i] = x})]

ParityOps ==
  {"set", "delete", "get", "has", "size", "keys", "values", "entries", "forEach", "clear"}

\* what the hash provider returns for the call c made after the same history
\* (for forEach: the pairs its predicate is invoked on)
HashAnswer(c) ==
  LET hs == HashStoreOf(c.logical0)
      hk == getStorageKey(c.ks, c.st)
      fs == CHOOSE q \in Orders(RedisHFields(hs, hk)) : TRUE
      pairs == [i \in 1..Len(fs) |-> <<fs[i], hs[hk][fs[i]]>>]
  IN CASE c.op = "get" -> OrUndefined(RedisHGet(hs, hk, c.key[1]))
       [] c.op = "set" -> "this"
       [] c.op = "delete" -> RedisHDel(hs, hk, c.key).n > 0
       [] c.op = "has" -> RedisHExists(hs, hk, c.key[1]) > 0
       [] c.op = "size" -> RedisHLen(hs, hk)
       [] c.op = "clear" -> RedisDel(hs, <<hk>>).n > 0
       [] c.op = "keys" -> BagOf(fs)
       [] c.op = "values" -> BagOf([i \in 1..Len(fs) |-> hs[hk][fs[i]]])
       [] OTHER -> BagOf(pairs)

\* what the finished call c of a flat-key provider returned
FlatAnswer(c) ==
  CASE c.op \in {"keys", "values", "entries"} -> BagOf(c.result)
    [] c.op = "forEach" ->
         LET ns == {n \in 1..Len(c.log) : c.log[n].e = "PRED"}
         IN [x \in {<<c.log[n].k[1], c.log[n].v>> : n \in ns}
               |-> Cardinality({n \in ns : <<c.log[n].k[1], c.log[n].v>> = x})]
    [] OTHER -> c.result

\* C13: parity of the two encodings. After the same sequence of set, delete
\* and clear calls, each of set, delete, get, has, size, keys, values, entries,
\* forEach and clear returns from a flat-key provider what it returns from the
\* hash provider (lists as unordered collections; for forEach, the pairs the
\* predicate is invoked on); the hash provider's store is the hash image of
\* the history the comparison starts from. (values and entries are compared
\* on partitions that hold a record.)
C13_EncodingParity ==
  /\ provider = Hash => store = HashStoreOf(logical)
  /\ (call.pc = "done" /\ call.impl \in {Perf, Plain} /\ call.op \in ParityOps
        /\ (call.op \in {"values", "entries"}
              => PartitionOf(call.logical0, call.ks, call.st) # {}))
       => /\ ~call.err
          /\ FlatAnswer(call) = HashAnswer(call)

\* C14: lifecycle. The provider is connected only through an init() that
\* succeeded; an init() that fails leaves it unconnected; a method called while
\* it is unconnected fails with the connection error and leaves the store as
\* it was.
C14_Lifecycle ==
  [][/\ (connection = Closed /\ connection' = Open)
          => (call'.op = "init" /\ call'.pc = "done" /\ ~call'.err)
     /\ (connection = Closed /\ IsIdle /\ call'.op = "init" /\ call'.err)
          => connection' = Closed
     /\ (connection = Closed /\ IsIdle /\ call'.pc # "idle" /\ call'.op # "init")
          => (call'.pc = "done" /\ call'.err /\ store' = store)]_vars

IsPred(x) == x.e = "PRED"

\* the predicate invocations of the call, in the order they were made
Invocations(c) == SelectSeq(c.log, IsPred)

\* C15: forEach is sequential. With no concurrent write, fn is invoked once
\* for every enumerated key whose record is present, in enumeration order; in
\* the per-key path the GET of a key comes after the invocation for the key
\* before it resolved, each fetched value being handed to fn before the next
\* GET is sent.
C15_ForEachSequential ==
  (call.op = "forEach" /\ call.writes = 0 /\ call.pc # "keys")
    => /\ Len(Invocations(call)) <= Len(call.keys)
       /\ \A n \in 1..Len(Invocations(call)) :
            /\ Invocations(call)[n].k = <<call.keys[n]>>
            /\ call.impl # Hash
                 => Invocations(call)[n].v
                      = StoredAt(call.store0, call.ks, call.st, call.keys[n])
       /\ call.pc = "done" => Len(Invocations(call)) = Len(call.keys)
       /\ \A n \in 1..(Len(call.log) - 1) :
            (call.log[n].e = "GET" /\ call.log[n].v # Null)
              => /\ call.log[n + 1].e = "PRED"
                 /\ call.log[n].k = FlatKeys(call, call.log[n + 1].k)
                 /\ call.log[n + 1].v = call.log[n].v

\* C16: fetch strategy by mode. On a partition with keys, forEach, filter,
\* map, count and sweep of the provider with modes make, under Fast, one MGET
\* over the flat keys of all enumerated keys and no GET, and under Saving one
\* GET per enumerated key and no MGET; a key whose value is absent when fetched
\* gets no predicate invocation.
C16_FetchStrategy ==
  (call.impl = Perf /\ Len(call.keys) > 0
     /\ call.op \in {"forEach", "filter", "map", "count", "sweep"})
    => /\ performanceMode = Fast
            => /\ CountLog(call, "GET") = 0
               /\ IF call.pc = "mget" THEN CountLog(call, "MGET") = 0
                  ELSE /\ CountLog(call, "MGET") = 1
                       /\ \E n \in 1..Len(call.log) :
                            /\ call.log[n].e = "MGET"
                            /\ call.log[n].k = FlatKeys(call, call.keys)
               /\ \A n \in 1..Len(Invocations(call)) :
                    \E i \in 1..Len(call.keys) :
                      /\ <<call.keys[i]>> = Invocations(call)[n].k
                      /\ call.values[i] # Null
       /\ performanceMode = Saving
            => /\ CountLog(call, "MGET") = 0
               /\ CountLog(call, "GET") <= Len(call.keys)
               /\ call.pc = "done" => CountLog(call, "GET") = Len(call.keys)
               /\ \A n \in 1..Len(call.log) :
                    call.log[n].e = "GET" => call.log[n].k = FlatKeys(call, <<call.keys[
                      Cardinality({m \in 1..n : call.log[m].e = "GET"})]>>)
               /\ \A n \in 1..(Len(call.log) - 1) :
                    (call.log[n].e = "GET" /\ call.log[n].v = Null)
                      => call.log[n + 1].e # "PRED"

C16_Witness ==
  /\ IsDone("sweep") /\ call.impl = Perf /\ performanceMode = Saving
  /\ Len(call.keys) = 2 /\ CountLog(call, "PRED") = 1
  /\ \E n \in 1..Len(call.log) : call.log[n].e = "GET" /\ call.log[n].v = Null

\* the keys of the invocations of the call whose value satisfied the predicate
Matched(c) ==
  LET hit(x) == IsPred(x) /\ Holds(c.preds[1], x.v)
      hits == SelectSeq(c.log, hit)
  IN [n \in 1..Len(hits) |-> hits[n].k[1]]

\* C17: sweep deletes in one batch after the scan. In the provider with
\* modes, a DEL of sweep is the last call it makes, after every fetch and every
\* predicate invocation; there is at most one, and it names the flat keys of
\* all the keys that matched; a sweep that ends with an error (a fetch, a
\* predicate or the delete failed) leaves the store as it was.
C17_SweepBatchedDelete ==
  (call.op = "sweep" /\ call.impl = Perf)
    => /\ CountLog(call, "DEL") <= 1
       /\ \A n \in 1..Len(call.log) :
            call.log[n].e = "DEL"
              => /\ n = Len(call.log) /\ call.pc = "done"
                 /\ call.log[n].k = FlatKeys(call, Matched(call))
       /\ (call.pc # "done" \/ call.err) => store = call.store0

C17_Witness ==
  /\ IsDone("sweep") /\ call.impl = Perf /\ call.err
  /\ Len(call.keys) = 2 /\ Len(Matched(call)) = 1
  /\ call.log[Len(call.log)].e = "GET" /\ call.log[Len(call.log)].v = Error
  /\ store = call.store0

\* the n-th call of command e of the call
NthLog(c, e, n) ==
  c.log[CHOOSE m \in 1..Len(c.log) :
          /\ c.log[m].e = e
          /\ Cardinality({j \in 1..m : c.log[j].e = e}) = n]

\* C18: counts enumerates once and fetches once per predicate. A counts call
\* with n predicates on a partition with keys makes one KEYS call; on the Fast
\* path it makes n MGET calls, each over all the enumerated keys, and on the
\* per-key path n GETs per enumerated key, pass after pass over the same key
\* list; every predicate invocation is on an enumerated key. (With another
\* client writing meanwhile, two predicates may so see different values of one
\* key: the witness.)
C18_CountsRefetch ==
  (IsDone("counts") /\ Len(call.keys) > 0)
    => /\ CountLog(call, "KEYS") = 1
       /\ Len(call.result) = Len(call.preds)
       /\ \A n \in 1..Len(Invocations(call)) :
            \E i \in 1..Len(call.keys) : Invocations(call)[n].k = <<call.keys[i]>>
       /\ IF call.impl = Perf /\ performanceMode = Fast
          THEN /\ CountLog(call, "GET") = 0
               /\ CountLog(call, "MGET") = Len(call.preds)
               /\ \A n \in 1..Len(call.preds) :
                    NthLog(call, "MGET", n).k = FlatKeys(call, call.keys)
          ELSE /\ CountLog(call, "MGET") = 0
               /\ CountLog(call, "GET") = Len(call.preds) * Len(call.keys)
               /\ \A n \in 1..(Len(call.preds) * Len(call.keys)) :
                    NthLog(call, "GET", n).k
                      = FlatKeys(call, <<call.keys[((n - 1) % Len(call.keys)) + 1]>>)

C18_Witness ==
  /\ IsDone("counts") /\ Len(call.preds) = 2 /\ call.writes > 0
  /\ \E m, n \in 1..Len(Invocations(call)) :
       /\ m < n
       /\ Invocations(call)[m].k = Invocations(call)[n].k
       /\ Invocations(call)[m].v # Invocations(call)[n].v

\* the record of triple (ks, st, k) in store s, Null if none
RecordOf(s, ks, st, k) ==
  IF provider = Hash THEN RedisHGet(s, getStorageKey(ks, st), k)
  ELSE StoredAt(s, ks, st, k)

\* C19: delete and set change what they name and nothing else. After
\* delete(keyspace, storage, key-or-list) no listed key has a record, every
\* other triple has the record it had, and the result is true exactly when a
\* listed key had a record; after set(t, v) the record of t is v and every
\* other triple has the record it had.
C19_DeleteFrame ==
  /\ IsDone("delete")
       => /\ \A ks \in dom.ks, st \in dom.st, k \in dom.k :
               RecordOf(store, ks, st, k)
                 = IF ks = call.ks /\ st = call.st /\ (\E i \in 1..Len(call.key) : call.key[i] = k)
                   THEN Null
                   ELSE RecordOf(call.store0, ks, st, k)
          /\ call.result
               = (\E i \in 1..Len(call.key) :
                    RecordOf(call.store0, call.ks, call.st, call.key[i]) # Null)
          /\ DOMAIN store \subseteq DOMAIN call.store0
  /\ IsDone("set")
       => /\ \A ks \in dom.ks, st \in dom.st, k \in dom.k :
               RecordOf(store, ks, st, k)
                 = IF <<ks, st, k>> = CallTriple THEN call.val
                   ELSE RecordOf(call.store0, ks, st, k)
          /\ DOMAIN call.store0 \subseteq DOMAIN store

C19_Witness ==
  /\ IsDone("delete") /\ call.result = TRUE
  /\ Len(call.key) = 2 /\ call.key[1] # call.key[2]
  /\ \A i \in 1..2 : RecordOf(call.store0, call.ks, call.st, call.key[i]) # Null
  /\ \E st \in dom.st, k \in dom.k :
       st # call.st /\ RecordOf(store, call.ks, st, k) # Null

\* what has(ks, st, k) returns on the store as it is
HasNow(ks, st, k) ==
  IF provider = Hash THEN RedisHExists(store, getStorageKey(ks, st), k) > 0
  ELSE RedisExists(store, getRedisKey(ks, st, k)) > 0

\* C20: presence is reported consistently. get(t) returns a value other than
\* undefined exactly when has(t) is true, and size(keyspace, storage) is what
\* count(keyspace, storage, always-true) returns, in every reachable store, a
\* record whose value is the empty string included.
C20_PresenceConsistent ==
  /\ IsDone("get")
       => (call.result # Undefined) = HasNow(call.ks, call.st, call.key[1])
  /\ (IsDone("size") /\ call.impl # Hash)
       => call.result = Replay(call, "count", <<"always">>, performanceMode).result

\* C21: enumeration is confined to its partition. For names without ':',
\* pattern characters such as '*' and '?' included, keys(keyspace, storage)
\* lists the keys of the records set with exactly that keyspace and storage,
\* each once and no other, and size(keyspace, storage) is their number.
C21_EnumerationConfined ==
  /\ IsDone("keys")
       => /\ Len(call.result) = Cardinality(PartitionOf(call.logical0, call.ks, call.st))
          /\ \A i \in 1..Len(call.result) :
               <<call.ks, call.st, call.result[i]>> \in DOMAIN call.logical0
  /\ IsDone("size")
       => call.result = Cardinality(PartitionOf(call.logical0, call.ks, call.st))

\* the step is the answer to a DEL sent by sweep
SweepDeletes ==
  /\ call.op = "sweep" /\ call.pc \in {"del", "delOne"}
  /\ Len(call'.log) = Len(call.log) + 1
  /\ call'.log[Len(call'.log)].e = "DEL"

\* C22: sweep does not lose concurrent updates. With another client setting
\* keys of the partition while sweep(pred) runs, every record a DEL of sweep
\* removes has, at the moment of that DEL, a value that satisfies pred.
C22_SweepNoLostUpdate ==
  [][SweepDeletes
       => \A f \in (DOMAIN store) \ (DOMAIN store') : Holds(call.preds[1], store[f])]_vars

====
